---------------------------- MODULE Spec2Model ----------------------------
(***************************************************************************)
(* Multi-agent debate (MAD) over an LLM backend: the generation gateway    *)
(* (GroqClient / OpenRouterClient), the Debater and Judge agents, the      *)
(* per-question debate drivers and the batch drivers.                      *)
(*                                                                         *)
(* The specifications share the variables:                                 *)
(*   SpecGateway  one generate / generate_json call of a client, one       *)
(*                backend request per step;                                *)
(*   SpecAgents   Debater and Judge objects whose operations are called   *)
(*                in any order;                                            *)
(*   Spec         a batch driver running the debates of its questions;     *)
(*   SpecBaseline the single-agent baseline and the self-consistency       *)
(*                baseline's guarded generate_json call;                   *)
(*   SpecSelfConsistency  the self-consistency baseline's answer_mcq;      *)
(*   SpecResume   a checkpointing batch driver that is stopped and         *)
(*                started again, each debate taken as one step.            *)
(***************************************************************************)
EXTENDS Integers, Sequences, FiniteSets, TLC

VARIABLES
    \* ---- gateway (api_client_experimental.py) ----
    provider,       \* which client class: "groq" | "openrouter"
    max_retries,    \* self.max_retries
    call_kind,      \* the operation under way: "none" | "generate" | "generate_json"
    json_mode,      \* response_format={"type": "json_object"} in the current generate call
    gpc,            \* "idle" | "loop" | "returned" | "raised"
    attempt,        \* the retry loop's index
    requests,       \* backend requests issued by the current generate call
    outcomes,       \* what the backend answered to each of them
    waits,          \* the time.sleep arguments of the current generate call
    gen_log,        \* the generate calls completed so far in this operation
    gresult,        \* what the operation returned or raised
    \* ---- Debater objects (debater_experimental.py) ----
    position,           \* self.position of each Debater
    opening_argument,   \* self.opening_argument of each Debater
    backend_calls,      \* client.generate_json calls made so far (in Spec: by the current debate)
    \* ---- a caller of the Debater's operations ----
    mode,               \* the debate variant, which fixes the methods used
    last,               \* the last operation called and how it ended
    has_opened,         \* the Debaters whose opening call has returned
    \* ---- a batch driver and the debate it is running ----
    questions,      \* the question ids the for loop goes through
    idx,            \* the place of the current question in them
    results,        \* the results list
    error_log,      \* the [ERROR] lines printed: question id and message
    pc,             \* "start", the next step of the current debate, "done" or "crashed"
    pos_x,          \* run_mad_*'s local pos_x
    pos_y,          \* run_mad_*'s local pos_y
    opening,        \* run_mad_*'s locals opening_x, opening_y
    rebuttal,       \* run_mad_*'s locals rebuttal_x, rebuttal_y
    call_log,       \* the agent calls of the last run_mad_* call entered, in order
    last_run,       \* how the last call of run_mad_* ended
    checkpoint,     \* the checkpoint file: the results saved in it, or "absent"
    \* ---- SelfConsistencyBaseline._safe_generate_json (self_consistency.py) ----
    timeout,        \* self.timeout
    sc_pc,          \* "idle" | "loop" | "returned" | "raised"
    elapsed,        \* time.time() - start, in seconds
    sc_calls,       \* what each client.generate_json call of the current call did
    sc_result,      \* what the call returned
    \* ---- SelfConsistencyBaseline.answer_mcq ----
    num_samples,    \* self.num_samples
    answers,        \* answer_mcq's local answers
    sc_record       \* the dict answer_mcq returned

gwVars == <<provider, max_retries, call_kind, json_mode, gpc, attempt,
            requests, outcomes, waits, gen_log, gresult>>

debVars == <<position, opening_argument, backend_calls>>

harnessVars == <<mode, last, has_opened>>

runVars == <<pc, pos_x, pos_y, opening, rebuttal, call_log>>

batchVars == <<questions, idx, results, error_log, last_run, checkpoint>>

scVars == <<timeout, sc_pc, elapsed, sc_calls, sc_result, num_samples, answers, sc_record>>

nonGwVars == <<debVars, harnessVars, runVars, batchVars, scVars>>

vars == <<gwVars, debVars, harnessVars, runVars, batchVars, scVars>>

-----------------------------------------------------------------------------
(* Bounds *)

\* max_retries is drawn from 0..MaxRetriesBound
MaxRetriesBound == 3

\* The batch driver is given the questions 1..NumQuestions.
NumQuestions == 2

\* The 'answer' strings of a baseline response have at most this many
\* characters.
MaxAnswerLen == 3

\* self.timeout of the self-consistency baseline is drawn from 0..MaxTimeout
\* (seconds).
MaxTimeout == 2

\* The caller of SpecAgents starts no operation once this many
\* generate_json calls were made.
MaxBackendCalls == 3

-----------------------------------------------------------------------------
(* Generation gateway *)

\* retry_delay: float = 2.0
RetryDelay == 2

Providers == {"groq", "openrouter"}

\* What one backend request can come back with.  ok_json: a JSON object;
\* ok_fenced: a JSON object wrapped in a markdown code fence; ok_text: text
\* that is not JSON; rate_limit: HTTP 429 / a rate-limit error;
\* rate_limit_400: a rate-limit error whose message also holds the digits
\* 400; server: a 5xx; bad_request: HTTP 400 / json_validate_failed;
\* other: any other HTTP error (401, 403, 404); network: connection error
\* or timeout.
BackendOutcomes == {"ok_json", "ok_fenced", "ok_text", "rate_limit", "rate_limit_400",
                    "server", "bad_request", "other", "network"}

IsOk(o) == o \in {"ok_json", "ok_fenced", "ok_text"}

\* A backoff that waits the same time after every attempt.
Pow2Constant(k) == 1

\* 2 ** attempt
Pow2(k) == 2 ^ k

\* A client that retries no failure.
RetriableNever(p, o) == FALSE

\* A client that retries every failure.
RetriableAlways(p, o) == TRUE

\* The failures a client's generate answers with a wait and another request.
Retriable(p, o) ==
    IF p = "groq"
    THEN o \in {"rate_limit", "rate_limit_400"}
    ELSE o \in {"rate_limit", "rate_limit_400", "server", "network"}

\* The timeout a client sets on its backend request: OpenRouterClient posts
\* with timeout=60; GroqClient builds Groq(api_key=...) and calls
\* chat.completions.create(**kwargs) with no timeout among the arguments.
RequestTimeout(p) == IF p = "openrouter" THEN "60" ELSE "unset"

\* The text generate returns for a successful request: OpenRouterClient
\* strips a markdown fence, GroqClient returns the content as it is.
ContentOf(p, o) ==
    IF p = "openrouter" /\ o = "ok_fenced" THEN "ok_json" ELSE o

\* A parser that makes an object of any text.
ParsesAnything(t) == TRUE

\* json.loads of the returned text.
ParsesAsJson(t) == t = "ok_json"

\* generate_json's except clause: does the failed JSON-mode call lead to the
\* plain-text call?
FallsBack(p, e) ==
    IF p = "groq"
    THEN e \in {"bad_request", "rate_limit_400"}
    ELSE e = "bad_request"

LoopContinues(a) == a < max_retries

IsLastAttempt(a) == ~(a < max_retries - 1)

\* The current generate call ends, returning text or raising: what the
\* operation under way does next.  generate_json goes on to the plain-text
\* call, or parses the text, or lets the error through.
EndGenerate(res, val, reqs, outs, wts) ==
    LET rec == [json_mode |-> json_mode, requests |-> reqs, outcomes |-> outs,
                waits |-> wts, result |-> res, value |-> val]
        fallback == /\ call_kind = "generate_json"
                    /\ res = "raised"
                    /\ json_mode
                    /\ FallsBack(provider, val)
    IN  /\ gen_log' = Append(gen_log, rec)
        /\ IF fallback
           THEN /\ gpc' = "loop"
                /\ json_mode' = FALSE
                /\ attempt' = 0
                /\ requests' = 0
                /\ outcomes' = <<>>
                /\ waits' = <<>>
                /\ UNCHANGED gresult
           ELSE /\ requests' = reqs
                /\ outcomes' = outs
                /\ waits' = wts
                /\ UNCHANGED <<json_mode, attempt>>
                /\ IF call_kind = "generate"
                   THEN gpc' = res /\ gresult' = val
                   ELSE IF res = "raised"
                   THEN gpc' = "raised" /\ gresult' = val
                   ELSE IF ParsesAsJson(val)
                   THEN gpc' = "returned" /\ gresult' = "dict"
                   ELSE gpc' = "raised" /\ gresult' = "parse_error"

\* client.generate(prompt, response_format=...)
CallGenerate(jm) ==
    /\ gpc = "idle"
    /\ call_kind' = "generate"
    /\ json_mode' = jm
    /\ gpc' = "loop"
    /\ UNCHANGED <<provider, max_retries, attempt, requests, outcomes, waits,
                   gen_log, gresult>>
    /\ UNCHANGED nonGwVars

\* client.generate_json(prompt): the JSON-mode generate call starts
CallGenerateJson ==
    /\ gpc = "idle"
    /\ call_kind' = "generate_json"
    /\ json_mode' = TRUE
    /\ gpc' = "loop"
    /\ UNCHANGED <<provider, max_retries, attempt, requests, outcomes, waits,
                   gen_log, gresult>>
    /\ UNCHANGED nonGwVars

\* One pass of the retry loop: the request and what the client makes of its
\* outcome.
BackendRequest(o) ==
    /\ gpc = "loop"
    /\ LoopContinues(attempt)
    /\ LET reqs == requests + 1
           outs == Append(outcomes, o)
       IN  IF IsOk(o)
           THEN EndGenerate("returned", ContentOf(provider, o), reqs, outs, waits)
           ELSE IF Retriable(provider, o)
           THEN IF ~IsLastAttempt(attempt)
                THEN /\ waits' = Append(waits, RetryDelay * Pow2(attempt))
                     /\ attempt' = attempt + 1
                     /\ requests' = reqs
                     /\ outcomes' = outs
                     /\ UNCHANGED <<json_mode, gpc, gen_log, gresult>>
                ELSE EndGenerate("raised", o, reqs, outs, waits)
           ELSE EndGenerate("raised", o, reqs, outs, waits)
    /\ UNCHANGED <<provider, max_retries, call_kind>>
    /\ UNCHANGED nonGwVars

\* The loop ran out without returning or raising: raise RuntimeError("Max
\* retries exceeded").
LoopExhausted ==
    /\ gpc = "loop"
    /\ ~LoopContinues(attempt)
    /\ EndGenerate("raised", "runtime_error", requests, outcomes, waits)
    /\ UNCHANGED <<provider, max_retries, call_kind>>
    /\ UNCHANGED nonGwVars

-----------------------------------------------------------------------------
(* Payloads *)

Debaters == {"debater_x", "debater_y"}

\* ['A', 'B', 'C', 'D']
Choices == {"A", "B", "C", "D"}

IracKeys == {"issue", "rule", "application", "conclusion"}

\* Python's None, for a variable that otherwise holds a dict
None == [kind |-> "None"]

\* self.position = None
NoPosition == "None"

\* A JSON value that is tested as a string: "text" has visible characters,
\* "blank" is whitespace only, "empty" is "", "missing" is an absent key.
ValueKinds == {"text", "blank", "empty", "missing"}

\* value.strip()
Strip(v) == IF v = "blank" THEN "empty" ELSE v

\* isinstance(value, str) and value.strip() is truthy
NonBlank(v) == v # "missing" /\ Strip(v) = "text"

AllText == [k \in IracKeys |-> "text"]

NoIrac == [k \in IracKeys |-> "missing"]

OneOff(k, v) == [AllText EXCEPT ![k] = v]

\* The dict a debater's opening call gets from generate_json.  position:
\* the value under 'position', or "MISSING"; has_argument, has_answer: the
\* key is there; has_irac and irac: the 'irac' dict; full_answer: the kind
\* of value under 'full_answer'; key_citations: "list", "missing", "null"
\* or "string".
OpeningBody(pos, arg, hasirac, ir, fa, cit, ans) ==
    [position |-> pos, has_argument |-> arg, has_irac |-> hasirac, irac |-> ir,
     full_answer |-> fa, key_citations |-> cit, has_answer |-> ans]

\* {"position": ..., "argument": ...}
VanillaOpening(pos, arg) == OpeningBody(pos, arg, FALSE, NoIrac, "missing", "missing", FALSE)

\* {"position": ..., "irac": {...}}
IracOpening(pos, hasirac, ir) == OpeningBody(pos, FALSE, hasirac, ir, "missing", "missing", FALSE)

\* {"irac": {...}, "full_answer": ..., "key_citations": ...}
OabOpening(hasirac, ir, fa, cit) == OpeningBody("MISSING", FALSE, hasirac, ir, fa, cit, FALSE)

\* {"answer": ...}
OabVanillaOpening(ans) == OpeningBody("MISSING", FALSE, FALSE, NoIrac, "missing", "missing", ans)

\* The dict a rebuttal call gets.  rebuttal_complete: the 'rebuttal' dict
\* has issue_critique, rule_critique, application_critique, my_reinforcement.
RebuttalBody(reb, complete, refined) ==
    [has_rebuttal |-> reb, rebuttal_complete |-> complete, has_refined_answer |-> refined]

\* What client.generate_json does: it raises, or returns the parsed dict.
GwExc(e) == [kind |-> "exc", err |-> e, body |-> None]

GwResp(b) == [kind |-> "resp", err |-> "none", body |-> b]

GatewayErrors == {"gateway_error", "parse_error"}

\* How an operation of an agent ends: with the dict it returns, or with the
\* exception it raises (value: the response its message quotes); calls: the
\* generate_json calls it made.
Returned(v, n) == [result |-> "returned", error |-> "none", value |-> v, calls |-> n]

Raised(e, v, n) == [result |-> "raised", error |-> e, value |-> v, calls |-> n]

\* No run_mad_* call has ended yet.
NoRun == [question_id |-> 0, outcome |-> "none", error |-> "none", step |-> "none",
          calls |-> 0]

\* The openings and rebuttals of run_mad_* before its steps
NoLocals == [d \in Debaters |-> None]

-----------------------------------------------------------------------------
(* Debater *)

\* for _ in range(3)
ValidationAttempts == 3

\* _valid_irac_response, as defined in generate_opening_oab and in
\* generate_opening_oab_adversarial
ValidIracResponse(resp) ==
    /\ resp.has_irac
    /\ \A k \in IracKeys : NonBlank(resp.irac[k])
    /\ NonBlank(resp.full_answer)
    /\ resp.key_citations \in {"list", "missing", "null"}

\* A validator that drops the citations of the dict it checks.
AfterValidationMut(resp) == [resp EXCEPT !.key_citations = "missing"]

\* The dict after _valid_irac_response has run on it: the validator reads
\* it with get, isinstance and strip and assigns nothing.
AfterValidation(resp) == resp

\* A helper that prefers the validation error to a kept exception.
GenerateResponseFirst(grs) ==
    LET answered == {k \in 1..ValidationAttempts : grs[k].kind = "resp"}
        raised == {k \in 1..ValidationAttempts : grs[k].kind = "exc"}
        valid == {k \in answered : ValidIracResponse(grs[k].body)}
        first == CHOOSE k \in valid : \A j \in valid : k <= j
        lastOf(S) == CHOOSE k \in S : \A j \in S : j <= k
    IN  IF valid # {} THEN Returned(AfterValidation(grs[first].body), first)
        ELSE IF answered # {}
        THEN Raised("validation_failed", grs[lastOf(answered)].body, ValidationAttempts)
        ELSE Raised(grs[lastOf(raised)].err, None, ValidationAttempts)

RECURSIVE ValidationLoop(_, _, _, _)
ValidationLoop(grs, i, last_exception, last_response) ==
    IF i > ValidationAttempts
    THEN IF last_exception # "none"
         THEN Raised(last_exception, None, ValidationAttempts)
         ELSE Raised("validation_failed", last_response, ValidationAttempts)
    ELSE IF grs[i].kind = "exc"
    THEN ValidationLoop(grs, i + 1, grs[i].err, last_response)
    ELSE IF ValidIracResponse(grs[i].body)
    THEN Returned(AfterValidation(grs[i].body), i)
    ELSE ValidationLoop(grs, i + 1, last_exception, AfterValidation(grs[i].body))

\* A helper that hands on its first response as it is.
GenerateWithoutValidation(grs) ==
    IF grs[1].kind = "exc" THEN Raised(grs[1].err, None, 1) ELSE Returned(grs[1].body, 1)

\* Debater._generate_with_validation; grs[i] is what the i-th generate_json
\* call does, if it is made.
GenerateWithValidation(grs) == ValidationLoop(grs, 1, "none", None)

\* Debater.generate_opening
GenerateOpening(gr) ==
    IF gr.kind = "exc" THEN Raised(gr.err, None, 1)
    ELSE IF gr.body.position = "MISSING" \/ ~gr.body.has_argument
    THEN Raised("invalid_response", gr.body, 1)
    ELSE Returned(gr.body, 1)

\* Debater.generate_opening_irac
GenerateOpeningIrac(gr) ==
    IF gr.kind = "exc" THEN Raised(gr.err, None, 1)
    ELSE IF gr.body.position = "MISSING" \/ ~gr.body.has_irac
    THEN Raised("invalid_response", gr.body, 1)
    ELSE IF \E k \in IracKeys : gr.body.irac[k] = "missing"
    THEN Raised("missing_irac_component", gr.body, 1)
    ELSE Returned(gr.body, 1)

\* Debater.generate_opening_oab_vanilla and
\* generate_opening_oab_adversarial_vanilla
GenerateOpeningOabVanilla(gr) ==
    IF gr.kind = "exc" THEN Raised(gr.err, None, 1)
    ELSE IF ~gr.body.has_answer THEN Raised("invalid_response", gr.body, 1)
    ELSE Returned(gr.body, 1)

\* The opening and the rebuttal method a debate variant calls.
Modes == {"vanilla", "irac", "hybrid", "oab_irac", "oab_vanilla"}

McqModes == {"vanilla", "irac", "hybrid"}

OpeningMethod(m) ==
    CASE m = "vanilla" -> "generate_opening"
      [] m \in {"irac", "hybrid"} -> "generate_opening_irac"
      [] m = "oab_irac" -> "generate_opening_oab"
      [] m = "oab_vanilla" -> "generate_opening_oab_vanilla"

RebuttalMethod(m) ==
    CASE m \in {"vanilla", "hybrid"} -> "generate_rebuttal"
      [] m = "irac" -> "generate_rebuttal_irac"
      [] m = "oab_irac" -> "generate_rebuttal_oab"
      [] m = "oab_vanilla" -> "generate_rebuttal_oab_vanilla"

\* The opening operation of a variant, on what its generate_json calls do.
OpeningResult(m, grs) ==
    CASE OpeningMethod(m) = "generate_opening" -> GenerateOpening(grs[1])
      [] OpeningMethod(m) = "generate_opening_irac" -> GenerateOpeningIrac(grs[1])
      [] OpeningMethod(m) = "generate_opening_oab" -> GenerateWithValidation(grs)
      [] OpeningMethod(m) = "generate_opening_oab_vanilla" -> GenerateOpeningOabVanilla(grs[1])

\* A rebuttal without the guard.
HasNoOpeningMut(d) == FALSE

\* if not self.opening_argument
HasNoOpening(d) == opening_argument[d] = None

\* Debater.generate_rebuttal, generate_rebuttal_irac, generate_rebuttal_oab,
\* generate_rebuttal_oab_vanilla of debater d
RebuttalResult(m, d, gr) ==
    IF HasNoOpening(d) THEN Raised("must_open_first", None, 0)
    ELSE IF gr.kind = "exc" THEN Raised(gr.err, None, 1)
    ELSE IF RebuttalMethod(m) \in {"generate_rebuttal", "generate_rebuttal_irac"}
    THEN IF ~gr.body.has_rebuttal
         THEN Raised("invalid_response", gr.body, 1)
         ELSE IF RebuttalMethod(m) = "generate_rebuttal_irac" /\ ~gr.body.rebuttal_complete
         THEN Raised("missing_rebuttal_component", gr.body, 1)
         ELSE Returned(gr.body, 1)
    ELSE IF ~gr.body.has_refined_answer
    THEN Raised("invalid_response", gr.body, 1)
    ELSE Returned(gr.body, 1)

\* An opening that stores its response before it has checked it.
StoreOpeningUnchecked(m, d, res) ==
    /\ opening_argument' = [opening_argument EXCEPT ![d] = res.value]
    /\ position' = IF m \in McqModes /\ res.result = "returned"
                   THEN [position EXCEPT ![d] = res.value.position]
                   ELSE position

\* Debaters whose opening_argument is one attribute shared by all of them.
StoreOpeningShared(m, d, res) ==
    IF res.result = "returned"
    THEN /\ opening_argument' = [x \in Debaters |-> res.value]
         /\ position' = IF m \in McqModes
                        THEN [position EXCEPT ![d] = res.value.position]
                        ELSE position
    ELSE UNCHANGED <<position, opening_argument>>

\* What an opening that returned stores in the Debater: the MCQ openings
\* store position and opening_argument, the OAB openings opening_argument.
StoreOpening(m, d, res) ==
    IF res.result = "returned"
    THEN /\ opening_argument' = [opening_argument EXCEPT ![d] = res.value]
         /\ position' = IF m \in McqModes
                        THEN [position EXCEPT ![d] = res.value.position]
                        ELSE position
    ELSE UNCHANGED <<position, opening_argument>>

-----------------------------------------------------------------------------
(* Judge *)

\* The dict a judge call gets.  decision, winner: the value under the key,
\* or "MISSING"; has_synthesis and synthesis: the 'synthesis' dict;
\* final_answer: "text", "null" or "missing".
JudgeBody(dec, win, hassyn, syn, fa) ==
    [decision |-> dec, winner |-> win, has_synthesis |-> hassyn, synthesis |-> syn,
     final_answer |-> fa]

\* A judge that accepts any decision.
ValidDecisionMut(dec) == TRUE

\* response['decision'] in ['A', 'B', 'C', 'D']
ValidDecision(dec) == dec \in Choices

\* A hybrid judge without the winner check.
WinnerConsistentMut(h, body) == TRUE

\* make_decision_hybrid's check of the decision against the winner's
\* opening position in debate_history
WinnerConsistent(h, body) ==
    /\ body.winner = "debater_x" => body.decision = h["debater_x"].position
    /\ body.winner = "debater_y" => body.decision = h["debater_y"].position

\* make_decision without its two checks.
MakeDecisionUnchecked(gr) ==
    IF gr.kind = "exc" THEN Raised(gr.err, None, 1) ELSE Returned(gr.body, 1)

\* Judge.make_decision
MakeDecision(gr) ==
    IF gr.kind = "exc" THEN Raised(gr.err, None, 1)
    ELSE IF gr.body.decision = "MISSING" THEN Raised("invalid_response", gr.body, 1)
    ELSE IF ~ValidDecision(gr.body.decision) THEN Raised("invalid_decision", gr.body, 1)
    ELSE Returned(gr.body, 1)

\* Judge.make_decision_irac
MakeDecisionIrac(gr) ==
    IF gr.kind = "exc" THEN Raised(gr.err, None, 1)
    ELSE IF gr.body.decision = "MISSING" THEN Raised("invalid_response", gr.body, 1)
    ELSE IF ~ValidDecision(gr.body.decision) THEN Raised("invalid_decision", gr.body, 1)
    ELSE IF ~gr.body.has_synthesis THEN Raised("missing_synthesis", gr.body, 1)
    ELSE IF \E k \in IracKeys : gr.body.synthesis[k] = "missing"
    THEN Raised("missing_synthesis_component", gr.body, 1)
    ELSE Returned(gr.body, 1)

\* Judge.make_decision_hybrid; h is debate_history's openings
MakeDecisionHybrid(h, gr) ==
    IF gr.kind = "exc" THEN Raised(gr.err, None, 1)
    ELSE IF gr.body.decision = "MISSING" THEN Raised("invalid_response", gr.body, 1)
    ELSE IF ~ValidDecision(gr.body.decision) THEN Raised("invalid_decision", gr.body, 1)
    ELSE IF ~WinnerConsistent(h, gr.body) THEN Raised("winner_mismatch", gr.body, 1)
    ELSE Returned(gr.body, 1)

\* Judge.synthesize_answer_oab and synthesize_answer_oab_vanilla
SynthesizeAnswerOab(gr) ==
    IF gr.kind = "exc" THEN Raised(gr.err, None, 1)
    ELSE IF gr.body.final_answer = "missing" THEN Raised("invalid_response", gr.body, 1)
    ELSE Returned(gr.body, 1)

\* The judge operation of a variant.
JudgeResult(m, h, gr) ==
    CASE m = "vanilla" -> MakeDecision(gr)
      [] m = "irac" -> MakeDecisionIrac(gr)
      [] m = "hybrid" -> MakeDecisionHybrid(h, gr)
      [] m \in {"oab_irac", "oab_vanilla"} -> SynthesizeAnswerOab(gr)

-----------------------------------------------------------------------------
(* A caller of the Debater's operations, in any order (SpecAgents) *)

DebaterPositions == {"A", "B", "E", "MISSING"}

DebaterIracShapes ==
    {AllText, OneOff("rule", "missing"), OneOff("issue", "empty")}

\* The dicts the backend is made to return to an opening call of a variant.
DebaterOpeningBodies(m) ==
    CASE m = "vanilla" ->
            {VanillaOpening(p, a) : p \in DebaterPositions, a \in BOOLEAN}
            \cup {IracOpening("A", TRUE, AllText)}
      [] m \in {"irac", "hybrid"} ->
            {IracOpening(p, TRUE, i) : p \in DebaterPositions, i \in DebaterIracShapes}
            \cup {IracOpening("A", FALSE, NoIrac), VanillaOpening("A", TRUE)}
      [] m = "oab_irac" ->
            {OabOpening(TRUE, AllText, "text", "list"),
             OabOpening(TRUE, OneOff("rule", "blank"), "text", "list"),
             OabOpening(TRUE, AllText, "blank", "list"),
             OabOpening(TRUE, AllText, "text", "string")}
      [] m = "oab_vanilla" ->
            {OabVanillaOpening(a) : a \in BOOLEAN}

DebaterRebuttalBodies ==
    {RebuttalBody(TRUE, TRUE, TRUE), RebuttalBody(TRUE, FALSE, FALSE),
     RebuttalBody(FALSE, FALSE, TRUE), RebuttalBody(FALSE, FALSE, FALSE)}

DebaterOpeningResults(m) ==
    {GwExc(e) : e \in GatewayErrors} \cup {GwResp(b) : b \in DebaterOpeningBodies(m)}

DebaterValidatedResults(m) ==
    {GwExc(e) : e \in GatewayErrors} \cup {GwResp(b) : b \in DebaterOpeningBodies(m)}

DebaterRebuttalResults ==
    {GwExc(e) : e \in GatewayErrors} \cup {GwResp(b) : b \in DebaterRebuttalBodies}

\* What the caller saw of its latest call: the operation, the backend's
\* answers to it, its outcome, and for the judge the openings in debate_history.
JudgeHistories ==
    [Debaters -> {IracOpening(p, TRUE, AllText) : p \in {"A", "B"}}]

JudgeBodies(m) ==
    CASE m = "vanilla" ->
            {JudgeBody(d, "MISSING", FALSE, NoIrac, "missing") : d \in DebaterPositions}
      [] m = "irac" ->
            {JudgeBody(d, "MISSING", TRUE, AllText, "missing") : d \in DebaterPositions}
            \cup {JudgeBody("A", "MISSING", FALSE, NoIrac, "missing"),
                  JudgeBody("A", "MISSING", TRUE, OneOff("rule", "missing"), "missing"),
                  JudgeBody("A", "MISSING", TRUE, OneOff("issue", "empty"), "missing")}
      [] m = "hybrid" ->
            {JudgeBody(d, w, FALSE, NoIrac, "missing") :
                d \in DebaterPositions, w \in Debaters \cup {"MISSING", "tie"}}
      [] m \in {"oab_irac", "oab_vanilla"} ->
            {JudgeBody("MISSING", "MISSING", FALSE, NoIrac, fa) :
                fa \in {"text", "null", "missing"}}

JudgeResults(m) ==
    {GwExc(e) : e \in GatewayErrors} \cup {GwResp(b) : b \in JudgeBodies(m)}

LastCall(op, d, res, grs, h) ==
    [op |-> op, debater |-> d, result |-> res.result, error |-> res.error,
     value |-> res.value, calls |-> res.calls, inputs |-> grs, history |-> h]

\* debater d's opening operation is called
CallOpening(d, grs) ==
    /\ backend_calls < MaxBackendCalls
    /\ LET res == OpeningResult(mode, grs)
       IN  /\ StoreOpening(mode, d, res)
           /\ backend_calls' = backend_calls + res.calls
           /\ last' = LastCall("opening", d, res, grs, NoLocals)
           /\ has_opened' = IF res.result = "returned"
                            THEN has_opened \cup {d} ELSE has_opened
    /\ UNCHANGED <<gwVars, scVars, mode, runVars, batchVars>>

\* debater d's rebuttal operation is called, whether or not d has opened
CallRebuttal(d, gr) ==
    /\ backend_calls < MaxBackendCalls
    /\ LET res == RebuttalResult(mode, d, gr)
       IN  /\ backend_calls' = backend_calls + res.calls
           /\ last' = LastCall("rebuttal", d, res, <<gr>>, NoLocals)
    /\ UNCHANGED <<gwVars, scVars, mode, position, opening_argument, has_opened, runVars, batchVars>>

\* the judge's operation is called on a debate history with openings h
CallJudge(h, gr) ==
    /\ backend_calls < MaxBackendCalls
    /\ LET res == JudgeResult(mode, h, gr)
       IN  /\ backend_calls' = backend_calls + res.calls
           /\ last' = LastCall("judge", "judge", res, <<gr>>, h)
    /\ UNCHANGED <<gwVars, scVars, mode, position, opening_argument, has_opened, runVars, batchVars>>

GatewayUnused ==
    /\ provider = "groq"
    /\ max_retries = 0
    /\ call_kind = "none"
    /\ json_mode = FALSE
    /\ gpc = "idle"
    /\ attempt = 0
    /\ requests = 0
    /\ outcomes = <<>>
    /\ waits = <<>>
    /\ gen_log = <<>>
    /\ gresult = "none"

NoCall == [op |-> "none", debater |-> "none", result |-> "none", error |-> "none",
           value |-> None, calls |-> 0, inputs |-> <<>>, history |-> NoLocals]

\* answer_mcq of the self-consistency baseline has not returned.
NoRecord == [answer |-> "none", samples |-> <<>>, majority_count |-> 0]

\* No _safe_generate_json call has started.
NoSafeCall == [kind |-> "none", answer |-> "none"]

ScUnused ==
    /\ timeout = 0
    /\ sc_pc = "idle"
    /\ elapsed = 0
    /\ sc_calls = <<>>
    /\ sc_result = NoSafeCall
    /\ num_samples = 1
    /\ answers = <<>>
    /\ sc_record = NoRecord

NoBatch ==
    /\ questions = <<>>
    /\ idx = 1
    /\ results = <<>>
    /\ error_log = <<>>
    /\ pc = "done"
    /\ pos_x = NoPosition
    /\ pos_y = NoPosition
    /\ opening = NoLocals
    /\ rebuttal = NoLocals
    /\ call_log = <<>>
    /\ last_run = NoRun
    /\ checkpoint = "absent"

\* Debater.__init__
DebatersCreated ==
    /\ position = [d \in Debaters |-> NoPosition]
    /\ opening_argument = [d \in Debaters |-> None]

AgentsInit ==
    /\ GatewayUnused
    /\ DebatersCreated
    /\ backend_calls = 0
    /\ mode \in Modes
    /\ last = NoCall
    /\ has_opened = {}
    /\ NoBatch
    /\ ScUnused

AgentsNext ==
    \/ \E d \in Debaters :
          \E gr \in DebaterOpeningResults(mode) :
             mode # "oab_irac" /\ CallOpening(d, <<gr>>)
    \/ \E d \in Debaters :
          \E grs \in [1..ValidationAttempts -> DebaterValidatedResults(mode)] :
             mode = "oab_irac" /\ CallOpening(d, grs)
    \/ \E d \in Debaters : \E gr \in DebaterRebuttalResults : CallRebuttal(d, gr)
    \/ \E h \in JudgeHistories : \E gr \in JudgeResults(mode) : CallJudge(h, gr)

SpecAgents == AgentsInit /\ [][AgentsNext]_vars

-----------------------------------------------------------------------------
(* One operation of a client (SpecGateway) *)

GatewayInit ==
    /\ provider \in Providers
    /\ max_retries \in 0..MaxRetriesBound
    /\ call_kind = "none"
    /\ json_mode = FALSE
    /\ gpc = "idle"
    /\ attempt = 0
    /\ requests = 0
    /\ outcomes = <<>>
    /\ waits = <<>>
    /\ gen_log = <<>>
    /\ gresult = "none"
    /\ DebatersCreated
    /\ backend_calls = 0
    /\ mode = "vanilla"
    /\ last = NoCall
    /\ has_opened = {}
    /\ NoBatch
    /\ ScUnused

GatewayNext ==
    \/ \E jm \in BOOLEAN : CallGenerate(jm)
    \/ CallGenerateJson
    \/ \E o \in BackendOutcomes : BackendRequest(o)
    \/ LoopExhausted

SpecGateway == GatewayInit /\ [][GatewayNext]_vars

-----------------------------------------------------------------------------
(* One debate: run_mad_mcq, run_mad_irac_mcq, run_mad_irac_hybrid_mcq,     *)
(* run_mad_oab, and the for loop of the batch driver around it             *)

\* A choice among all four positions.
AvailablePositionsForDebaterYMut(position_x) == Choices

\* get_available_positions_for_debater_y
AvailablePositionsForDebaterY(position_x) == {p \in Choices : p # position_x}

\* not pos_x or pos_x not in ['A', 'B', 'C', 'D']
InvalidPositionX(p) == p = "MISSING" \/ p \notin Choices

\* The result dict of the MCQ debates (gold answer and score left out).
McqRecord(q, px, py, op, rb, dec) ==
    [question_id |-> q, kind |-> "result",
     debater_x_position |-> px, debater_y_position |-> py,
     round_1 |-> op, round_2 |-> rb,
     decision |-> dec.decision,
     winner |-> IF dec.winner = "MISSING" THEN "unknown" ELSE dec.winner]

\* The result dict of run_mad_oab.
OabRecord(q, op, rb, syn) ==
    [question_id |-> q, kind |-> "result", round_1 |-> op, round_2 |-> rb,
     final_answer |-> syn.final_answer]

\* run_experiments_oab's {'question_id': ..., 'error': str(e)}
ErrorRecord(q, err) == [question_id |-> q, kind |-> "error", error |-> err]

\* A loop that stops at the first error.
BreakAfterError(i) == Len(questions) + 1

\* except Exception as e: ... continue
AfterError(i) == i + 1

\* The for loop moves to its next question, whose run_mad_* call starts
\* with new Debater objects.
NextQuestion(i) ==
    /\ idx' = i
    /\ pc' = IF i > Len(questions) THEN "done" ELSE "open_x"
    /\ position' = [d \in Debaters |-> NoPosition]
    /\ opening_argument' = [d \in Debaters |-> None]
    /\ backend_calls' = 0
    /\ pos_x' = NoPosition
    /\ pos_y' = NoPosition
    /\ opening' = NoLocals
    /\ rebuttal' = NoLocals

\* A step of the debate raised: run_mad_* is left, and the driver's except
\* clause prints the error (the OAB driver also appends an error record).
Fail(err, calls) ==
    LET q == questions[idx]
    IN  /\ last_run' = [question_id |-> q, outcome |-> "raised", error |-> err,
                        step |-> pc, calls |-> calls]
        /\ error_log' = Append(error_log, [question_id |-> q, error |-> err])
        /\ results' = IF mode \in McqModes
                      THEN results
                      ELSE Append(results, ErrorRecord(q, err))
        /\ NextQuestion(AfterError(idx))

\* The other debater of the pair
OpponentOf(d) == IF d = "debater_x" THEN "debater_y" ELSE "debater_x"

\* A rebuttal call that is handed the caller's own opening.
OpponentOpeningMut(d) == opening[d]

\* opponent_opening of debater d's rebuttal call: opening_y in debater_x's
\* call, opening_x in debater_y's.
OpponentOpening(d) == opening[OpponentOf(d)]

\* opponent_opening of debater Y's opening call: the OAB debates pass
\* opening_x, the MCQ debates have no such argument.
AdversarialOpening(m) == IF m \in McqModes THEN None ELSE opening["debater_x"]

\* One call of an agent's method by run_mad_*: its arguments and how it ended
CallEntry(op, d, pos, opp, res) ==
    [op |-> op, agent |-> d, position |-> pos, opponent_opening |-> opp,
     result |-> res.result, calls |-> res.calls]

\* A debate that goes from the openings straight to the judge.
StepAfterMut(step) ==
    CASE step = "open_x" -> "open_y"
      [] step = "open_y" -> "judge"
      [] step = "rebut_x" -> "rebut_y"
      [] step = "rebut_y" -> "judge"

\* The statement of run_mad_* that follows a step that returned
StepAfter(step) ==
    CASE step = "open_x" -> "open_y"
      [] step = "open_y" -> "rebut_x"
      [] step = "rebut_x" -> "rebut_y"
      [] step = "rebut_y" -> "judge"

\* The driver builds its client and enters its loop.  run_experiments_irac
\* builds it as GroqClient(...), a name its module does not import: NameError.
StartDriver ==
    /\ pc = "start"
    /\ pc' = IF mode = "irac" THEN "crashed" ELSE "open_x"
    /\ UNCHANGED <<gwVars, scVars, debVars, harnessVars, batchVars, pos_x, pos_y, opening,
                   rebuttal, call_log>>

\* Round 1, debater X: the opening, and in the MCQ debates the check of the
\* position X chose.
OpenX(grs) ==
    /\ pc = "open_x"
    /\ idx <= Len(questions)
    /\ LET res == OpeningResult(mode, grs)
           calls == backend_calls + res.calls
       IN  /\ call_log' = <<CallEntry("opening", "debater_x", NoPosition, None, res)>>
           /\ IF res.result = "raised"
              THEN Fail(res.error, calls)
              ELSE IF mode \in McqModes /\ InvalidPositionX(res.value.position)
              THEN Fail("invalid_position", calls)
              ELSE /\ StoreOpening(mode, "debater_x", res)
                   /\ backend_calls' = calls
                   /\ opening' = [opening EXCEPT !["debater_x"] = res.value]
                   /\ pos_x' = IF mode \in McqModes THEN res.value.position ELSE pos_x
                   /\ pc' = StepAfter(pc)
                   /\ UNCHANGED <<pos_y, rebuttal, idx, results, error_log, last_run>>
    /\ UNCHANGED <<gwVars, scVars, harnessVars, questions, checkpoint>>

\* Round 1, debater Y: in the MCQ debates py is random.choice of the
\* available positions, given to the opening call as position.
OpenY(py, grs) ==
    /\ pc = "open_y"
    /\ IF mode \in McqModes
       THEN py \in AvailablePositionsForDebaterY(pos_x)
       ELSE py = NoPosition
    /\ LET res == OpeningResult(mode, grs)
           calls == backend_calls + res.calls
       IN  /\ call_log' = Append(call_log, CallEntry("opening", "debater_y", py,
                                                    AdversarialOpening(mode), res))
           /\ IF res.result = "raised"
              THEN Fail(res.error, calls)
              ELSE /\ StoreOpening(mode, "debater_y", res)
                   /\ backend_calls' = calls
                   /\ opening' = [opening EXCEPT !["debater_y"] = res.value]
                   /\ pos_y' = py
                   /\ pc' = StepAfter(pc)
                   /\ UNCHANGED <<pos_x, rebuttal, idx, results, error_log, last_run>>
    /\ UNCHANGED <<gwVars, scVars, harnessVars, questions, checkpoint>>

\* Round 2: debater d's rebuttal of the opponent's opening
Rebut(d, gr) ==
    /\ pc = (IF d = "debater_x" THEN "rebut_x" ELSE "rebut_y")
    /\ LET res == RebuttalResult(mode, d, gr)
           calls == backend_calls + res.calls
       IN  /\ call_log' = Append(call_log, CallEntry("rebuttal", d, NoPosition,
                                                    OpponentOpening(d), res))
           /\ IF res.result = "raised"
              THEN Fail(res.error, calls)
              ELSE /\ rebuttal' = [rebuttal EXCEPT ![d] = res.value]
                   /\ backend_calls' = calls
                   /\ pc' = StepAfter(pc)
                   /\ UNCHANGED <<position, opening_argument, pos_x, pos_y, opening,
                                  idx, results, error_log, last_run>>
    /\ UNCHANGED <<gwVars, scVars, harnessVars, questions, checkpoint>>

\* The judge's call, the result dict, and the driver's handling of it: the
\* MCQ drivers append it; the OAB driver appends it and then measures the
\* answer, and len(None) raises into its except clause.
JudgeStep(gr) ==
    /\ pc = "judge"
    /\ LET q == questions[idx]
           res == JudgeResult(mode, opening, gr)
           calls == backend_calls + res.calls
           rec == IF mode \in McqModes
                  THEN McqRecord(q, pos_x, pos_y, opening, rebuttal, res.value)
                  ELSE OabRecord(q, opening, rebuttal, res.value)
       IN  /\ call_log' = Append(call_log, CallEntry("judge", "judge", NoPosition, None, res))
           /\ IF res.result = "raised"
              THEN Fail(res.error, calls)
              ELSE /\ last_run' = [question_id |-> q, outcome |-> "returned",
                                   error |-> "none", step |-> pc, calls |-> calls]
                   /\ IF mode \notin McqModes /\ res.value.final_answer = "null"
                      THEN /\ results' = Append(Append(results, rec),
                                                ErrorRecord(q, "type_error"))
                           /\ error_log' = Append(error_log,
                                                  [question_id |-> q, error |-> "type_error"])
                           /\ NextQuestion(AfterError(idx))
                      ELSE /\ results' = Append(results, rec)
                           /\ error_log' = error_log
                           /\ NextQuestion(idx + 1)
    /\ UNCHANGED <<gwVars, scVars, harnessVars, questions, checkpoint>>

\* What the backend is made to return in Spec.
RunPositions == {"A", "B", "E", "MISSING"}

RunOpeningBodies(m) ==
    CASE m = "vanilla" ->
            {VanillaOpening(p, TRUE) : p \in RunPositions} \cup {VanillaOpening("A", FALSE)}
      [] m \in {"irac", "hybrid"} ->
            {IracOpening(p, TRUE, AllText) : p \in RunPositions}
            \cup {IracOpening("A", TRUE, OneOff("rule", "missing"))}
      [] m = "oab_irac" ->
            {OabOpening(TRUE, AllText, "text", "list"),
             OabOpening(TRUE, AllText, "blank", "list")}
      [] m = "oab_vanilla" ->
            {OabVanillaOpening(a) : a \in BOOLEAN}

RunOpeningResults(m) ==
    {GwExc("gateway_error")} \cup {GwResp(b) : b \in RunOpeningBodies(m)}

RunRebuttalResults ==
    {GwExc("gateway_error"), GwResp(RebuttalBody(TRUE, TRUE, TRUE)),
     GwResp(RebuttalBody(FALSE, FALSE, FALSE))}

RunJudgeBodies(m) ==
    CASE m = "vanilla" ->
            {JudgeBody(d, "MISSING", FALSE, NoIrac, "missing") : d \in RunPositions}
      [] m = "irac" ->
            {JudgeBody(d, "MISSING", TRUE, AllText, "missing") : d \in RunPositions}
            \cup {JudgeBody("A", "MISSING", FALSE, NoIrac, "missing"),
                  JudgeBody("A", "MISSING", TRUE, OneOff("rule", "missing"), "missing")}
      [] m = "hybrid" ->
            {JudgeBody(d, w, FALSE, NoIrac, "missing") :
                d \in RunPositions, w \in Debaters \cup {"MISSING"}}
      [] m \in {"oab_irac", "oab_vanilla"} ->
            {JudgeBody("MISSING", "MISSING", FALSE, NoIrac, fa) :
                fa \in {"text", "null", "missing"}}

RunJudgeResults(m) ==
    {GwExc("gateway_error")} \cup {GwResp(b) : b \in RunJudgeBodies(m)}

\* The sequence 1, ..., n
Upto(n) == [i \in 1..n |-> i]

\* A driver that has loaded its questions.  run_mad_irac_mcq is called by
\* run_experiments_irac only, which never reaches its loop (StartDriver);
\* the second initial state of the irac variant is that loop entered with
\* a client, as the loops of the other drivers are.
Init ==
    /\ GatewayUnused
    /\ DebatersCreated
    /\ backend_calls = 0
    /\ mode \in Modes
    /\ last = NoCall
    /\ has_opened = {}
    /\ questions = Upto(NumQuestions)
    /\ idx = 1
    /\ results = <<>>
    /\ error_log = <<>>
    /\ pc \in IF mode = "irac" THEN {"start", "open_x"} ELSE {"start"}
    /\ pos_x = NoPosition
    /\ pos_y = NoPosition
    /\ opening = NoLocals
    /\ rebuttal = NoLocals
    /\ call_log = <<>>
    /\ last_run = NoRun
    /\ checkpoint = "absent"
    /\ ScUnused

OpeningInputs(m) ==
    IF m = "oab_irac"
    THEN [1..ValidationAttempts -> RunOpeningResults(m)]
    ELSE {<<gr>> : gr \in RunOpeningResults(m)}

Next ==
    \/ StartDriver
    \/ \E grs \in OpeningInputs(mode) : OpenX(grs)
    \/ \E grs \in OpeningInputs(mode) : \E py \in Choices \cup {NoPosition} : OpenY(py, grs)
    \/ \E d \in Debaters : \E gr \in RunRebuttalResults : Rebut(d, gr)
    \/ \E gr \in RunJudgeResults(mode) : JudgeStep(gr)

Spec == Init /\ [][Next]_vars

-----------------------------------------------------------------------------
(* Baselines: SingleAgentBaseline.answer_mcq and                           *)
(* SelfConsistencyBaseline._safe_generate_json (SpecBaseline)              *)

\* The characters of an 'answer' string: a valid letter in upper case, one
\* in lower case, a character that is no choice, a blank, a comma.
AnswerChars == {"A", "b", "E", " ", ","}

AnswerStrings == UNION {[1..n -> AnswerChars] : n \in 0..MaxAnswerLen}

\* str.upper
Upper(c) == IF c = "b" THEN "B" ELSE c

UpperStr(s) == [i \in 1..Len(s) |-> Upper(s[i])]

RECURSIVE LStrip(_)
LStrip(s) == IF s # <<>> /\ Head(s) = " " THEN LStrip(Tail(s)) ELSE s

RECURSIVE RStrip(_)
RStrip(s) == IF s # <<>> /\ s[Len(s)] = " " THEN RStrip(SubSeq(s, 1, Len(s) - 1)) ELSE s

\* str.strip
StripStr(s) == RStrip(LStrip(s))

\* ',' in answer
HasComma(s) == \E i \in 1..Len(s) : s[i] = ","

\* answer.split(',')[0]
RECURSIVE BeforeComma(_)
BeforeComma(s) ==
    IF s = <<>> \/ Head(s) = "," THEN <<>> ELSE <<Head(s)>> \o BeforeComma(Tail(s))

\* answer_mcq's clean-up of response['answer']
CleanAnswer(raw) ==
    LET a1 == UpperStr(StripStr(raw))
        a2 == IF HasComma(a1) THEN StripStr(BeforeComma(a1)) ELSE a1
    IN  IF Len(a2) > 1 THEN <<a2[1]>> ELSE a2

\* An answer_mcq that takes any cleaned answer.
AnswerIsChoiceMut(a) == TRUE

\* answer in ['A', 'B', 'C', 'D']
AnswerIsChoice(a) == a \in {<<c>> : c \in Choices}

\* The dict answer_mcq gets: {"answer": ..., "reasoning": ...}
AnswerBody(has, ans) == [has_answer |-> has, answer |-> ans]

\* SingleAgentBaseline.answer_mcq
AnswerMcq(gr) ==
    IF gr.kind = "exc" THEN Raised(gr.err, None, 1)
    ELSE IF ~gr.body.has_answer THEN Raised("missing_answer", gr.body, 1)
    ELSE IF ~AnswerIsChoice(CleanAnswer(gr.body.answer))
    THEN Raised("invalid_answer", gr.body, 1)
    ELSE Returned([gr.body EXCEPT !.answer = CleanAnswer(gr.body.answer)], 1)

AnswerResults ==
    {GwExc(e) : e \in GatewayErrors}
    \cup {GwResp(AnswerBody(FALSE, <<>>))}
    \cup {GwResp(AnswerBody(TRUE, a)) : a \in AnswerStrings}

\* answer_mcq is called on a single-agent baseline, which keeps nothing
\* from one call to the next: one call from the start shows them all.
CallAnswerMcq(gr) ==
    /\ sc_pc = "idle"
    /\ last.op = "none"
    /\ backend_calls < MaxBackendCalls
    /\ LET res == AnswerMcq(gr)
       IN  /\ backend_calls' = backend_calls + res.calls
           /\ last' = LastCall("answer_mcq", "single_agent", res, <<gr>>, NoLocals)
    /\ UNCHANGED <<gwVars, scVars, mode, position, opening_argument, has_opened,
                   runVars, batchVars>>

\* Seconds a client.generate_json call takes.
CallDurations == {0, 1}

SafeResults ==
    {GwExc(e) : e \in GatewayErrors}
    \cup {GwResp(AnswerBody(TRUE, <<"A">>)), GwResp(AnswerBody(TRUE, <<"E">>)),
          GwResp(AnswerBody(FALSE, <<>>))}

\* An except clause that lets parse errors through.
CaughtMut(e) == e # "parse_error"

\* except Exception
Caught(e) == TRUE

\* _safe_generate_json is called: start = time.time()
SafeGenerateJsonStart ==
    /\ last.op = "none"
    /\ sc_pc \in {"idle", "returned"}
    /\ sc_pc' = "loop"
    /\ elapsed' = 0
    /\ sc_calls' = <<>>
    /\ sc_result' = NoSafeCall
    /\ UNCHANGED <<gwVars, debVars, harnessVars, runVars, batchVars, timeout,
                   num_samples, answers, sc_record>>

\* One pass of the while loop: the generate_json call, which takes dur
\* seconds, and after an exception the check of the time and the sleep.
SafeGenerateJsonCall(gr, dur, guess) ==
    /\ sc_pc = "loop"
    /\ sc_calls' = Append(sc_calls, gr)
    /\ IF gr.kind = "resp"
       THEN /\ sc_pc' = "returned"
            /\ sc_result' = [kind |-> "response", body |-> gr.body]
            /\ elapsed' = elapsed + dur
       ELSE IF ~Caught(gr.err)
       THEN /\ sc_pc' = "raised"
            /\ sc_result' = [kind |-> "exception", answer |-> gr.err]
            /\ elapsed' = elapsed + dur
       ELSE IF elapsed + dur > timeout
       THEN /\ sc_pc' = "returned"
            /\ sc_result' = [kind |-> "fallback", answer |-> guess]
            /\ elapsed' = elapsed + dur
       ELSE /\ elapsed' = elapsed + dur + 1
            /\ UNCHANGED <<sc_pc, sc_result>>
    /\ UNCHANGED <<gwVars, debVars, harnessVars, runVars, batchVars, timeout,
                   num_samples, answers, sc_record>>

BaselineInit ==
    /\ GatewayUnused
    /\ DebatersCreated
    /\ backend_calls = 0
    /\ mode = "vanilla"
    /\ last = NoCall
    /\ has_opened = {}
    /\ NoBatch
    /\ timeout \in 0..MaxTimeout
    /\ sc_pc = "idle"
    /\ elapsed = 0
    /\ sc_calls = <<>>
    /\ sc_result = NoSafeCall
    /\ num_samples = 1
    /\ answers = <<>>
    /\ sc_record = NoRecord

SafeGenerateJsonStep ==
    \E gr \in SafeResults : \E dur \in CallDurations : \E guess \in Choices :
        SafeGenerateJsonCall(gr, dur, guess)

BaselineNext ==
    \/ \E gr \in AnswerResults : CallAnswerMcq(gr)
    \/ SafeGenerateJsonStart
    \/ SafeGenerateJsonStep

SpecBaseline == BaselineInit /\ [][BaselineNext]_vars

\* Every generate_json call comes back: the loop goes on.
SpecBaselineFair == SpecBaseline /\ WF_vars(SafeGenerateJsonStep)

-----------------------------------------------------------------------------
(* SelfConsistencyBaseline.answer_mcq (SpecSelfConsistency)                *)

\* The samples answer_mcq may be set to take
MaxSamples == 3

\* extract_answer_letter found no letter: None
NoLetter == "none"

\* \w among the characters of an answer
IsWordChar(c) == c \in {"A", "B", "b", "E"}

\* The order of the loop over ["A", "B", "C", "D"]
ChoiceOrder == <<"A", "B", "C", "D">>

\* An extraction that takes the first character, whatever it is.
ExtractFirstChar(text) == IF text = <<>> THEN NoLetter ELSE text[1]

\* extract_answer_letter: the first A-D that stands between word
\* boundaries; failing that, the first of A, B, C, D that is in the text.
ExtractAnswerLetter(text) ==
    LET t == UpperStr(StripStr(text))
        alone == {i \in 1..Len(t) :
                     /\ t[i] \in Choices
                     /\ (i = 1 \/ ~IsWordChar(t[i - 1]))
                     /\ (i = Len(t) \/ ~IsWordChar(t[i + 1]))}
        within == {k \in 1..Len(ChoiceOrder) : \E i \in 1..Len(t) : t[i] = ChoiceOrder[k]}
    IN  IF text = <<>> THEN NoLetter
        ELSE IF alone # {} THEN t[CHOOSE i \in alone : \A j \in alone : i <= j]
        ELSE IF within # {}
        THEN ChoiceOrder[CHOOSE k \in within : \A j \in within : k <= j]
        ELSE NoLetter

\* The number of times c is in seq
Occurrences(c, seq) == Cardinality({i \in 1..Len(seq) : seq[i] = c})

\* A vote that the first sample wins.
MostCommonFirst(seq) == seq[1]

\* Counter(answers).most_common(1)[0][0]: the most frequent element, the
\* one met first among equals
MostCommon(seq) ==
    LET best == {i \in 1..Len(seq) :
                    \A j \in 1..Len(seq) : Occurrences(seq[i], seq) >= Occurrences(seq[j], seq)}
    IN  seq[CHOOSE i \in best : \A j \in best : i <= j]

\* What generate_json does in a sample
SampleAnswers ==
    {<<"A">>, <<"b">>, <<"E">>, <<"E", "A">>, <<"b", "A">>, <<"E", " ", "b">>,
     <<" ", "b", ",">>, <<",">>, <<>>}

SampleResults ==
    {GwExc(e) : e \in GatewayErrors}
    \cup {GwResp(AnswerBody(TRUE, a)) : a \in SampleAnswers}
    \cup {GwResp(AnswerBody(FALSE, <<>>))}

\* The loop of answer_mcq calls _safe_generate_json for its next sample.
SampleStart ==
    /\ sc_pc = "idle"
    /\ Len(answers) < num_samples
    /\ SafeGenerateJsonStart

\* The rest of the pass: str(resp.get("answer", "")).strip().upper(), the
\* letter extracted from it or, with none, random.choice (guess); after the
\* last pass the majority vote and the dict returned.
TakeSample(guess) ==
    /\ sc_pc = "returned"
    /\ LET raw == IF sc_result.kind = "fallback" THEN <<sc_result.answer>>
                  ELSE IF sc_result.body.has_answer THEN sc_result.body.answer
                  ELSE <<>>
           raw_ans == UpperStr(StripStr(raw))
           clean_ans == ExtractAnswerLetter(raw_ans)
           all == Append(answers, IF clean_ans # NoLetter THEN clean_ans ELSE guess)
       IN  /\ answers' = all
           /\ IF Len(all) = num_samples
              THEN /\ sc_pc' = "voted"
                   /\ sc_record' = [answer |-> MostCommon(all), samples |-> all,
                                    majority_count |-> Occurrences(MostCommon(all), all)]
              ELSE /\ sc_pc' = "idle"
                   /\ UNCHANGED sc_record
    /\ UNCHANGED <<gwVars, debVars, harnessVars, runVars, batchVars, timeout,
                   num_samples, elapsed, sc_calls, sc_result>>

SelfConsistencyInit ==
    /\ GatewayUnused
    /\ DebatersCreated
    /\ backend_calls = 0
    /\ mode = "vanilla"
    /\ last = NoCall
    /\ has_opened = {}
    /\ NoBatch
    /\ timeout \in 0..MaxTimeout
    /\ sc_pc = "idle"
    /\ elapsed = 0
    /\ sc_calls = <<>>
    /\ sc_result = NoSafeCall
    /\ num_samples \in 1..MaxSamples
    /\ answers = <<>>
    /\ sc_record = NoRecord

SelfConsistencyNext ==
    \/ SampleStart
    \/ \E gr \in SampleResults : \E dur \in CallDurations : \E guess \in Choices :
          SafeGenerateJsonCall(gr, dur, guess)
    \/ \E guess \in Choices : TakeSample(guess)

SpecSelfConsistency == SelfConsistencyInit /\ [][SelfConsistencyNext]_vars

-----------------------------------------------------------------------------
(* The checkpointing batch drivers: run_experiments,                       *)
(* run_experiments_irac_hybrid and run_experiments_oab, with each debate   *)
(* taken as one step that returns a record or raises                       *)

\* The drivers save a checkpoint when the number of results is a multiple
\* of 50 (MCQ) or 10 (OAB).  The batches here are shorter than that, and
\* the interval is scaled down with them.
CheckpointEvery == 1

\* The variants whose driver runs with a checkpoint file
CheckpointModes == {"vanilla", "hybrid", "oab_irac", "oab_vanilla"}

\* How run_mad_* ends for its driver.  returned_null: run_mad_oab returns a
\* record whose final_answer is None.
DebateOutcomes(m) ==
    IF m \in McqModes
    THEN {"returned", "raised"}
    ELSE {"returned", "returned_null", "raised"}

\* The exceptions a debate raises into the driver's except clause
DebateErrors == {"gateway_error", "invalid_response"}

\* A record run_mad_* returns for question q
DebateRecord(m, q, fa) ==
    LET op == [d \in Debaters |->
                  CASE m = "vanilla" ->
                          VanillaOpening(IF d = "debater_x" THEN "A" ELSE "B", TRUE)
                    [] m = "hybrid" ->
                          IracOpening(IF d = "debater_x" THEN "A" ELSE "B", TRUE, AllText)
                    [] m = "oab_irac" -> OabOpening(TRUE, AllText, "text", "list")
                    [] m = "oab_vanilla" -> OabVanillaOpening(TRUE)]
        rb == [d \in Debaters |-> RebuttalBody(TRUE, TRUE, TRUE)]
    IN  IF m \in McqModes
        THEN McqRecord(q, "A", "B", op, rb,
                       JudgeBody("A", "debater_x", FALSE, NoIrac, "missing"))
        ELSE OabRecord(q, op, rb, JudgeBody("MISSING", "MISSING", FALSE, NoIrac, fa))

\* processed_ids = {r['question_id'] for r in results}
ProcessedIds(saved) == {saved[i].question_id : i \in 1..Len(saved)}

\* A filter that lets every question through.
RemainingQuestionsAll(qs, processed_ids) == qs

\* questions = [q for q in questions if q['id'] not in processed_ids]
RemainingQuestions(qs, processed_ids) ==
    LET NotProcessed(q) == q \notin processed_ids
    IN  SelectSeq(qs, NotProcessed)

\* The driver up to its loop: the questions are loaded, and with a
\* checkpoint file there the results are those saved in it and the
\* questions those with no record among them.
DriverStart ==
    /\ questions' = IF checkpoint = "absent"
                    THEN Upto(NumQuestions)
                    ELSE RemainingQuestions(Upto(NumQuestions), ProcessedIds(checkpoint))
    /\ results' = IF checkpoint = "absent" THEN <<>> ELSE checkpoint
    /\ idx' = 1
    /\ error_log' = <<>>
    /\ last_run' = NoRun
    /\ pc' = "run"
    /\ UNCHANGED checkpoint

\* One pass of the for loop.  A record is appended as soon as run_mad_*
\* returns; the OAB driver then takes len() of its final_answer, and its
\* except clause appends an error record for whatever was raised inside
\* the try block.  The checkpoint is written at the end of a pass that did
\* not raise.
RunQuestion(out, err) ==
    /\ pc = "run"
    /\ idx <= Len(questions)
    /\ out \in DebateOutcomes(mode)
    /\ LET q == questions[idx]
           rec == DebateRecord(mode, q, IF out = "returned_null" THEN "null" ELSE "text")
           appended == IF out = "raised" THEN results ELSE Append(results, rec)
           failed == out # "returned"
           error == IF out = "raised" THEN err ELSE "type_error"
       IN  /\ results' = IF failed /\ mode \notin McqModes
                         THEN Append(appended, ErrorRecord(q, error))
                         ELSE appended
           /\ error_log' = IF failed
                           THEN Append(error_log, [question_id |-> q, error |-> error])
                           ELSE error_log
           /\ checkpoint' = IF ~failed /\ Len(appended) % CheckpointEvery = 0
                            THEN appended
                            ELSE checkpoint
           /\ last_run' = [question_id |-> q,
                           outcome |-> IF out = "raised" THEN "raised" ELSE "returned",
                           error |-> IF out = "raised" THEN err ELSE "none",
                           step |-> "run", calls |-> 0]
           /\ idx' = IF failed THEN AfterError(idx) ELSE idx + 1
    /\ UNCHANGED <<gwVars, scVars, debVars, harnessVars, questions,
                   pc, pos_x, pos_y, opening, rebuttal, call_log>>

\* After the loop: the checkpoint file is deleted and the results are
\* written out.
FinishRun ==
    /\ pc = "run"
    /\ idx > Len(questions)
    /\ pc' = "done"
    /\ checkpoint' = "absent"
    /\ UNCHANGED <<gwVars, scVars, debVars, harnessVars, questions, idx, results,
                   error_log, last_run, pos_x, pos_y, opening, rebuttal, call_log>>

\* The process is stopped before the driver has finished, and the driver is
\* started again.
Restart ==
    /\ pc = "run"
    /\ DriverStart
    /\ UNCHANGED <<gwVars, scVars, debVars, harnessVars, pos_x, pos_y, opening,
                   rebuttal, call_log>>

ResumeInit ==
    /\ GatewayUnused
    /\ DebatersCreated
    /\ backend_calls = 0
    /\ mode \in CheckpointModes
    /\ last = NoCall
    /\ has_opened = {}
    /\ questions = Upto(NumQuestions)
    /\ idx = 1
    /\ results = <<>>
    /\ error_log = <<>>
    /\ pc = "run"
    /\ pos_x = NoPosition
    /\ pos_y = NoPosition
    /\ opening = NoLocals
    /\ rebuttal = NoLocals
    /\ call_log = <<>>
    /\ last_run = NoRun
    /\ checkpoint = "absent"
    /\ ScUnused

ResumeNext ==
    \/ \E out \in {"returned", "returned_null", "raised"} :
          \E err \in DebateErrors : RunQuestion(out, err)
    \/ FinishRun
    \/ Restart

SpecResume == ResumeInit /\ [][ResumeNext]_vars

-----------------------------------------------------------------------------
(* C1 *)

\* The failures the client's own retry logic treats as transient, written
\* out per client.
C1_RetriedBy(p, o) ==
    \/ p = "groq" /\ o \in {"rate_limit", "rate_limit_400"}
    \/ p = "openrouter" /\ o \in {"rate_limit", "rate_limit_400", "server", "network"}

C1_AllOutcomes(c, S) == \A i \in 1..Len(c.outcomes) : c.outcomes[i] \in S

-----------------------------------------------------------------------------
(* C2 *)

\* C2 as stated: in every result record of an MCQ debate the position in
\* debater X's opening differs from the position in debater Y's opening.
\* The drivers make the assigned positions differ, and never compare the
\* position in Y's response with anything.
C2_Original ==
    mode \in McqModes =>
        \A i \in 1..Len(results) :
            results[i].kind = "result" =>
                results[i].round_1["debater_x"].position
                    # results[i].round_1["debater_y"].position

-----------------------------------------------------------------------------
(* C3 *)

\* C3: in the MCQ variants a judge call that returns returns the backend's
\* response unchanged with a decision in {A,B,C,D}, and a response whose
\* decision is missing or outside {A,B,C,D} makes the call raise.
C3_DecisionInChoices ==
    (last.op = "judge" /\ mode \in McqModes) =>
        /\ last.result = "returned" =>
              /\ last.value.decision \in Choices
              /\ last.inputs[1].kind = "resp"
              /\ last.value = last.inputs[1].body
        /\ (last.inputs[1].kind = "resp" /\ last.inputs[1].body.decision \notin Choices) =>
              last.result = "raised"

C3_Witness ==
    /\ last.op = "judge"
    /\ mode \in McqModes
    /\ last.inputs[1].kind = "resp"
    /\ last.inputs[1].body.decision = "E"
    /\ last.result = "raised"
    /\ last.error = "invalid_decision"

-----------------------------------------------------------------------------
(* C4 *)

\* C4: when the response to make_decision_hybrid names debater_x or
\* debater_y as winner, the call returns only if the decision is that
\* debater's opening position in the debate history, and raises otherwise.
C4_WinnerConsistent ==
    (/\ last.op = "judge"
     /\ mode = "hybrid"
     /\ last.inputs[1].kind = "resp"
     /\ last.inputs[1].body.winner \in Debaters) =>
        LET b == last.inputs[1].body
            pos == last.history[b.winner].position
        IN  /\ last.result = "returned" => last.value.decision = pos
            /\ b.decision # pos => last.result = "raised"

C4_Witness ==
    /\ last.op = "judge"
    /\ mode = "hybrid"
    /\ last.inputs[1].kind = "resp"
    /\ last.inputs[1].body.winner = "debater_x"
    /\ last.inputs[1].body.decision = "B"
    /\ last.history["debater_x"].position = "A"
    /\ last.result = "raised"
    /\ last.error = "winner_mismatch"

-----------------------------------------------------------------------------
(* C5 *)

C5_Complete(r) ==
    /\ r.kind = "result"
    /\ \A d \in Debaters : r.round_1[d] # None /\ r.round_2[d] # None
    /\ r.decision \in Choices

C5_Ids(seq) == {seq[i].question_id : i \in 1..Len(seq)}

\* C5: each MCQ debate that ended either returned a record with both
\* openings, both rebuttals and a decision in {A,B,C,D}, or raised and left
\* no record; no record lacks a step or has a decision outside {A,B,C,D}.
C5_CompleteOrFailed ==
    mode \in McqModes =>
        /\ \A i \in 1..Len(results) : C5_Complete(results[i])
        /\ \A q \in 1..(idx - 1) :
              (questions[q] \in C5_Ids(results)) # (questions[q] \in C5_Ids(error_log))
        /\ last_run.outcome = "returned" =>
              /\ last_run.error = "none"
              /\ results[Len(results)].question_id = last_run.question_id
        /\ last_run.outcome = "raised" =>
              /\ last_run.error # "none"
              /\ last_run.question_id \notin C5_Ids(results)

C5_Witness ==
    /\ mode \in McqModes
    /\ Len(results) = 1
    /\ Len(error_log) = 1
    /\ pc = "done"

-----------------------------------------------------------------------------
(* C6 *)

\* C6: a step in which a question's processing raises moves the driver to
\* the next question of the list and keeps the records made so far; when
\* the driver is done every question has been attempted.
C6_BatchContinues ==
    /\ [][error_log' # error_log =>
             /\ idx' = idx + 1
             /\ idx' <= Len(questions) => pc' = "open_x"
             /\ Len(results') >= Len(results)
             /\ SubSeq(results', 1, Len(results)) = results]_vars
    /\ [](pc = "done" /\ questions # <<>> =>
             /\ idx = Len(questions) + 1
             /\ \A q \in 1..Len(questions) :
                   questions[q] \in C5_Ids(results) \cup C5_Ids(error_log))

C6_Witness ==
    /\ Len(error_log) >= 1
    /\ error_log[1].question_id = 1
    /\ \E i \in 1..Len(results) :
          results[i].question_id = 2 /\ results[i].kind = "result"

-----------------------------------------------------------------------------
(* C7 *)

\* C7 as stated: every question whose processing raised has a record in the
\* result list that carries its error.  The MCQ drivers print the error and
\* go on to the next question.
C7_Original ==
    \A i \in 1..Len(error_log) :
        \E j \in 1..Len(results) :
            /\ results[j].question_id = error_log[i].question_id
            /\ results[j].kind = "error"
            /\ results[j].error = error_log[i].error

-----------------------------------------------------------------------------
(* C8 *)

C8_Valid(b) ==
    /\ b.has_irac
    /\ \A k \in IracKeys : b.irac[k] = "text"
    /\ b.full_answer = "text"
    /\ b.key_citations # "string"

\* C8: a call of the validating helper makes at most 3 generate_json calls;
\* what it returns is one of the responses it got, and a valid one; when all
\* 3 responses fail validation it raises with the last of them.
C8_ValidatedOrRaised ==
    (last.op = "opening" /\ mode = "oab_irac") =>
        /\ last.calls <= 3
        /\ last.result = "returned" =>
              /\ C8_Valid(last.value)
              /\ last.inputs[last.calls] = GwResp(last.value)
        /\ (\A i \in 1..3 : last.inputs[i].kind = "resp" /\ ~C8_Valid(last.inputs[i].body)) =>
              /\ last.result = "raised"
              /\ last.error = "validation_failed"
              /\ last.calls = 3
              /\ last.value = last.inputs[3].body

C8_Witness ==
    /\ last.op = "opening"
    /\ mode = "oab_irac"
    /\ last.result = "raised"
    /\ last.error = "validation_failed"
    /\ last.calls = 3
    /\ last.inputs[1].body # last.inputs[3].body

-----------------------------------------------------------------------------
(* C9 *)

\* C9: a rebuttal operation called on a debater none of whose openings has
\* returned raises the must-open-first error, makes no generate_json call
\* and leaves the debater's position and opening_argument as they were.
C9_RebuttalNeedsOpening ==
    [][\A d \in Debaters :
          (last'.op = "rebuttal" /\ last'.debater = d /\ d \notin has_opened) =>
              /\ last'.result = "raised"
              /\ last'.error = "must_open_first"
              /\ last'.calls = 0
              /\ backend_calls' = backend_calls
              /\ position' = position
              /\ opening_argument' = opening_argument]_vars

C9_Witness ==
    /\ last.op = "rebuttal"
    /\ last.debater \notin has_opened
    /\ last.result = "raised"
    /\ last.error = "must_open_first"
    /\ last.inputs[1].kind = "resp"
    /\ backend_calls > 0

-----------------------------------------------------------------------------
(* C10 *)

\* C10 as stated: an MCQ opening whose response has a position outside
\* {A,B,C,D} raises, and no debater's position is outside {A,B,C,D}.
\* generate_opening and generate_opening_irac check only that the key
\* 'position' is there.
C10_Original ==
    mode \in McqModes =>
        /\ (/\ last.op = "opening"
            /\ last.inputs[1].kind = "resp"
            /\ last.inputs[1].body.position \notin Choices) => last.result = "raised"
        /\ \A d \in Debaters : position[d] \in Choices \cup {NoPosition}

-----------------------------------------------------------------------------
(* C11 *)

\* C11 as stated: from a debater's opening to the end of the debate its
\* position and opening_argument are those of that opening, and debater Y,
\* whose opening call is given a position, has that position stored.
\* generate_opening and generate_opening_irac store response['position'],
\* whatever position they were given.
C11_Original ==
    mode \in McqModes =>
        /\ \A d \in Debaters :
              opening[d] # None =>
                  /\ opening_argument[d] = opening[d]
                  /\ position[d] = opening[d].position
        /\ pos_y # NoPosition => position["debater_y"] = pos_y

-----------------------------------------------------------------------------
(* C12 *)

\* A generate_json operation is over.
C12_JsonDone == call_kind = "generate_json" /\ gpc \in {"returned", "raised"}

\* The text the backend sent in answer o is a JSON object once the client
\* has cleaned it.
C12_IsJson(p, o) == o = "ok_json" \/ (p = "openrouter" /\ o = "ok_fenced")

C12_LastGenerate == gen_log[Len(gen_log)]

C12_LastOutcome == C12_LastGenerate.outcomes[Len(C12_LastGenerate.outcomes)]

-----------------------------------------------------------------------------
(* C13 *)

\* C13 as stated: a generate_json operation makes at most two generate
\* calls, and makes the second, plain-text one exactly when the JSON-mode
\* call failed with the backend's bad-request / json_validate_failed answer.
\* GroqClient looks for the digits 400 anywhere in the error text.
C13_Original ==
    C12_JsonDone =>
        /\ Len(gen_log) <= 2
        /\ Len(gen_log) = 2 <=>
              /\ gen_log[1].json_mode
              /\ gen_log[1].result = "raised"
              /\ gen_log[1].value = "bad_request"
        /\ Len(gen_log) = 2 => ~gen_log[2].json_mode

-----------------------------------------------------------------------------
(* C14 *)

C14_Failures == {"rate_limit", "rate_limit_400", "server", "bad_request", "other", "network"}

\* C14 as stated: in a generate call only rate-limit and 5xx failures are
\* followed by another request; any other failure ends the call.
\* OpenRouterClient also retries connection errors and timeouts.
C14_Original ==
    \A i \in 1..Len(gen_log) :
        LET c == gen_log[i]
        IN  \A k \in 1..Len(c.outcomes) :
                (c.outcomes[k] \in C14_Failures \ {"rate_limit", "rate_limit_400", "server"}) =>
                    /\ k = Len(c.outcomes)
                    /\ c.result = "raised"
                    /\ c.value = c.outcomes[k]

\* C14 (as amended): in a generate call a failure the client does not retry
\* (GroqClient: anything but a rate limit; OpenRouterClient: an HTTP error
\* other than 429 and 5xx) is the call's last request and is raised with no
\* wait after it; every earlier request failed with a failure the client
\* retries and was followed by one wait.
C14_NonRetriablePropagates ==
    \A i \in 1..Len(gen_log) :
        LET c == gen_log[i]
            n == Len(c.outcomes)
        IN  /\ n >= 1 => Len(c.waits) = n - 1
            /\ \A k \in 1..n :
                  IF k < n
                  THEN C1_RetriedBy(provider, c.outcomes[k])
                  ELSE (c.outcomes[k] \in C14_Failures /\ ~C1_RetriedBy(provider, c.outcomes[k])) =>
                          /\ c.result = "raised"
                          /\ c.value = c.outcomes[k]

C14_Witness ==
    /\ max_retries >= 2
    /\ call_kind = "generate"
    /\ gpc = "raised"
    /\ gresult = "other"
    /\ Len(gen_log) = 1
    /\ gen_log[1].outcomes = <<"other">>
    /\ gen_log[1].requests = 1
    /\ gen_log[1].waits = <<>>

-----------------------------------------------------------------------------
(* C15 *)

\* C15 as stated: in the validating helper a generate_json call that raises
\* is the helper's last call, and the helper raises that exception; only a
\* response that failed validation is followed by another call.
\* The helper's except clause keeps the exception and goes on with the loop.
C15_Original ==
    (last.op = "opening" /\ mode = "oab_irac") =>
        \A k \in 1..last.calls :
            last.inputs[k].kind = "exc" =>
                /\ k = last.calls
                /\ last.result = "raised"
                /\ last.error = last.inputs[k].err

-----------------------------------------------------------------------------
(* C16 *)

\* issue, rule, application and conclusion are there as non-blank strings.
C16_IracFilled(b) == b.has_irac /\ \A k \in IracKeys : b.irac[k] = "text"

\* C16 as stated: an opening accepted by generate_opening_irac or by the OAB
\* IRAC openings has its four IRAC values non-blank, and an IRAC opening
\* call whose response lacks one of them, or has it empty or blank, raises.
\* generate_opening_irac only tests that the four keys are there.
C16_Original ==
    mode \in {"irac", "hybrid", "oab_irac"} =>
        /\ \A d \in Debaters :
              opening_argument[d] # None => C16_IracFilled(opening_argument[d])
        /\ (/\ last.op = "opening"
            /\ \A k \in 1..Len(last.inputs) :
                  last.inputs[k].kind = "resp" /\ ~C16_IracFilled(last.inputs[k].body)) =>
               last.result = "raised"

-----------------------------------------------------------------------------
(* C17 *)

C17_SynthesisFilled(b) == b.has_synthesis /\ \A k \in IracKeys : b.synthesis[k] = "text"

\* C17 as stated: make_decision_irac returns only a response whose synthesis
\* has issue, rule, application and conclusion as non-blank strings, and
\* raises on any other response.  The method only tests that the four keys
\* are there.
C17_Original ==
    (last.op = "judge" /\ mode = "irac" /\ last.inputs[1].kind = "resp") =>
        /\ last.result = "returned" => C17_SynthesisFilled(last.value)
        /\ ~C17_SynthesisFilled(last.inputs[1].body) => last.result = "raised"

-----------------------------------------------------------------------------
(* C18 *)

\* C18: a call of SingleAgentBaseline.answer_mcq raises, or returns a
\* record whose answer is the one letter A, B, C or D.
C18_AnswerIsOneLetter ==
    last.op = "answer_mcq" =>
        \/ last.result = "raised"
        \/ /\ last.result = "returned"
           /\ Len(last.value.answer) = 1
           /\ last.value.answer[1] \in {"A", "B", "C", "D"}

C18_Witness ==
    /\ last.op = "answer_mcq"
    /\ last.inputs[1].kind = "resp"
    /\ last.inputs[1].body.answer = <<"b", ",", "E">>
    /\ last.result = "returned"
    /\ last.value.answer = <<"B">>

-----------------------------------------------------------------------------
(* C19 *)

C19_AllRaised == \A k \in 1..Len(sc_calls) : sc_calls[k].kind = "exc"

-----------------------------------------------------------------------------
(* C20 *)

-----------------------------------------------------------------------------
(* C21 *)

\* The calls of a debate that runs to its end, in order
C21_Order ==
    << [op |-> "opening", agent |-> "debater_x"],
       [op |-> "opening", agent |-> "debater_y"],
       [op |-> "rebuttal", agent |-> "debater_x"],
       [op |-> "rebuttal", agent |-> "debater_y"],
       [op |-> "judge", agent |-> "judge"] >>

C21_AllReturned(n) == \A i \in 1..n : call_log[i].result = "returned"

C21_StepsDone ==
    CASE pc = "open_y" -> 1
      [] pc = "rebut_x" -> 2
      [] pc = "rebut_y" -> 3
      [] pc = "judge" -> 4
      [] OTHER -> 0

\* C21: the calls of a debate are a prefix of opening X, opening Y, rebuttal
\* X, rebuttal Y, judge, each made once and only after every earlier one has
\* returned; the result record of a question is there exactly when all five
\* calls of its debate, the judge's last, have returned.
C21_StrictlySequential ==
    /\ Len(call_log) <= Len(C21_Order)
    /\ \A i \in 1..Len(call_log) :
          /\ call_log[i].op = C21_Order[i].op
          /\ call_log[i].agent = C21_Order[i].agent
          /\ i < Len(call_log) => call_log[i].result = "returned"
    /\ C21_StepsDone > 0 =>
          /\ Len(call_log) = C21_StepsDone
          /\ C21_AllReturned(C21_StepsDone)
    /\ (pc \in {"open_x", "done"} /\ idx > 1) =>
          ((\E k \in 1..Len(results) :
               /\ results[k].question_id = questions[idx - 1]
               /\ results[k].kind = "result")
           <=> (Len(call_log) = 5 /\ C21_AllReturned(5)))

C21_Witness ==
    /\ pc = "done"
    /\ Len(call_log) = 5
    /\ C21_AllReturned(5)
    /\ last_run.outcome = "returned"
    /\ \E k \in 1..Len(results) :
          results[k].question_id = questions[idx - 1] /\ results[k].kind = "result"

-----------------------------------------------------------------------------
(* C22 *)

\* The call a step of the debate has just added to the log
C22_NewCall == call_log'[Len(call_log')]

\* C22: every rebuttal call, whether it then returns or raises, is handed
\* the opening the other debater returned and stored in round 1, and not
\* the caller's own when the two differ.
C22_RebuttalGetsOpponentOpening ==
    [][(Len(call_log') = Len(call_log) + 1 /\ Len(call_log') \in {3, 4}) =>
          /\ C22_NewCall.op = "rebuttal"
          /\ C22_NewCall.opponent_opening = opening[OpponentOf(C22_NewCall.agent)]
          /\ C22_NewCall.opponent_opening = opening_argument[OpponentOf(C22_NewCall.agent)]
          /\ opening_argument[C22_NewCall.agent] # opening_argument[OpponentOf(C22_NewCall.agent)]
                => C22_NewCall.opponent_opening # opening_argument[C22_NewCall.agent]
      ]_vars

C22_Witness ==
    /\ pc = "judge"
    /\ opening["debater_x"] # opening["debater_y"]
    /\ call_log[3].agent = "debater_x"
    /\ call_log[3].opponent_opening = opening["debater_y"]
    /\ call_log[4].agent = "debater_y"
    /\ call_log[4].opponent_opening = opening["debater_x"]

-----------------------------------------------------------------------------
(* C23 *)

\* The MCQ debate has debater X's opening behind it.
C23_AfterOpenX == mode \in McqModes /\ pc \in {"open_y", "rebut_x", "rebut_y", "judge"}

\* C23: in the MCQ debates debater Y's opening call, whether it returns or
\* raises, is made after debater X's opening call has returned a position
\* in {A,B,C,D}, and the position it is given is one of the three other
\* choices; the debate keeps both positions as they were then.
C23_PositionYAvailable ==
    /\ [](C23_AfterOpenX =>
            /\ call_log[1].agent = "debater_x"
            /\ call_log[1].result = "returned"
            /\ pos_x \in Choices
            /\ pos_x = opening["debater_x"].position
            /\ pc # "open_y" =>
                  /\ call_log[2].agent = "debater_y"
                  /\ call_log[2].position = pos_y
                  /\ pos_y \in Choices \ {pos_x})
    /\ [][(mode \in McqModes /\ Len(call_log) = 1 /\ Len(call_log') = 2) =>
             /\ call_log[1].agent = "debater_x"
             /\ call_log[1].result = "returned"
             /\ pos_x \in Choices
             /\ call_log'[2].agent = "debater_y"
             /\ call_log'[2].position \in Choices \ {pos_x}
         ]_vars

C23_Witness ==
    /\ mode \in McqModes
    /\ pc = "rebut_x"
    /\ pos_x = "B"
    /\ pos_y = "A"
    /\ call_log[2].position = "A"

-----------------------------------------------------------------------------
(* C24 *)

\* C24 (as stated, for the remote calls): every backend request a generate
\* call issues is within the retry ceiling and carries an explicit timeout.
\* Fails for GroqClient, whose requests set no timeout.
C24_Original ==
    requests > 0 =>
        /\ requests <= max_retries
        /\ RequestTimeout(provider) # "unset"

\* The generate_json calls of the steps logged so far
RECURSIVE C24_CallsIn(_)
C24_CallsIn(log) ==
    IF log = <<>> THEN 0 ELSE log[Len(log)].calls + C24_CallsIn(SubSeq(log, 1, Len(log) - 1))

\* The rest of C24, which holds of the debate: it makes at most five agent
\* calls and at most 3 + 3 + 3 generate_json calls, and a call that raises
\* is the last call of its debate.
C24_AbortsAtFailure ==
    /\ Len(call_log) <= 5
    /\ C24_CallsIn(call_log) <= (2 * ValidationAttempts) + 3
    /\ \A i \in 1..Len(call_log) :
          call_log[i].result = "raised" =>
             /\ i = Len(call_log)
             /\ pc \in {"open_x", "done"}
             /\ last_run.outcome = "raised"
             /\ last_run.calls = C24_CallsIn(call_log)

-----------------------------------------------------------------------------
(* C25 *)

-----------------------------------------------------------------------------
(* C26 *)

\* The waits of one generate call: the first is retry_delay, each later
\* one twice the one before, and the k-th (from 0) is retry_delay * 2^k.
C26_Doubles(w) ==
    /\ Len(w) > 0 => w[1] = RetryDelay
    /\ \A i \in 1..Len(w) : w[i] = RetryDelay * (2 ^ (i - 1))
    /\ \A i \in 1..(Len(w) - 1) : w[i + 1] = 2 * w[i]

\* C26: in generate, one wait follows each transient failure that is
\* retried, the wait after attempt k being retry_delay * 2^k; a generate
\* call that has ended made one request more than it waited, so no wait
\* follows its last request, and after max_retries requests it has raised.
C26_ExponentialBackoff ==
    /\ C26_Doubles(waits)
    /\ gpc = "loop" => Len(waits) = attempt /\ requests = attempt
    /\ \A i \in 1..Len(gen_log) :
          /\ C26_Doubles(gen_log[i].waits)
          /\ gen_log[i].requests > 0 =>
                /\ Len(gen_log[i].waits) = gen_log[i].requests - 1
                /\ \A k \in 1..Len(gen_log[i].waits) :
                      Retriable(provider, gen_log[i].outcomes[k])
          /\ (gen_log[i].requests = max_retries /\ max_retries > 0
                /\ ~IsOk(gen_log[i].outcomes[max_retries])) =>
                gen_log[i].result = "raised"

\* A generate call that waited twice and then raised on its last attempt.
C26_Witness ==
    /\ max_retries = 3
    /\ gpc = "raised"
    /\ Len(gen_log) = 1
    /\ gen_log[1].waits = <<RetryDelay, 2 * RetryDelay>>
    /\ gen_log[1].requests = 3
    /\ gen_log[1].result = "raised"

-----------------------------------------------------------------------------
(* C27 *)

\* C27: an opening call that raises, whatever the error, leaves every
\* Debater's position and opening_argument as they were; so a Debater none
\* of whose openings has returned has neither, however many of its openings
\* have failed, and a rebuttal called on it raises the must-open-first
\* error.
C27_FailedOpeningStoresNothing ==
    /\ [][(last'.op = "opening" /\ last'.result = "raised") =>
             /\ position' = position
             /\ opening_argument' = opening_argument
             /\ has_opened' = has_opened]_vars
    /\ [](\A d \in Debaters :
             d \notin has_opened =>
                /\ position[d] = NoPosition
                /\ opening_argument[d] = None
                /\ HasNoOpening(d))
    /\ [][(last'.op = "rebuttal" /\ last'.debater \notin has_opened) =>
             last'.error = "must_open_first"]_vars

\* An opening of a Debater that has not opened raised on a response it
\* rejected.
C27_Witness ==
    /\ last.op = "opening"
    /\ last.result = "raised"
    /\ last.inputs[last.calls].kind = "resp"
    /\ last.debater \notin has_opened
    /\ opening_argument[last.debater] = None

-----------------------------------------------------------------------------
(* C28 *)

\* The attempts of the last validating call that raised an exception
C28_Raising == {k \in 1..last.calls : last.inputs[k].kind = "exc"}

C28_LastRaising == CHOOSE k \in C28_Raising : \A j \in C28_Raising : j <= k

\* C28: when the validating helper raises after its 3 attempts, it raises
\* the exception of the latest attempt that raised one, if any did, even
\* when a later attempt returned a response that failed validation; it
\* raises the validation error, with the last response, only when every
\* attempt returned a response.
C28_LastExceptionFirst ==
    (last.op = "opening" /\ mode = "oab_irac" /\ last.result = "raised") =>
        /\ last.calls = ValidationAttempts
        /\ C28_Raising # {} =>
              /\ last.error = last.inputs[C28_LastRaising].err
              /\ last.error # "validation_failed"
              /\ last.value = None
        /\ C28_Raising = {} =>
              /\ last.error = "validation_failed"
              /\ last.value = last.inputs[ValidationAttempts].body

\* Two different exceptions, then a response that fails validation.
C28_Witness ==
    /\ last.op = "opening"
    /\ mode = "oab_irac"
    /\ last.result = "raised"
    /\ last.inputs[1] = GwExc("gateway_error")
    /\ last.inputs[2] = GwExc("parse_error")
    /\ last.inputs[3].kind = "resp"
    /\ last.error = "parse_error"

-----------------------------------------------------------------------------
(* C29 *)

C29_UniqueIds(seq) ==
    \A i, j \in 1..Len(seq) : i # j => seq[i].question_id # seq[j].question_id

\* C29 as stated: in the checkpointing drivers no question id is in the
\* results more than once.  The OAB driver appends the record of a debate
\* and, when an exception follows in the same pass of its loop, an error
\* record for the same question.
C29_Original == C29_UniqueIds(results)

\* What holds of C29: the MCQ drivers keep the ids of their results unique;
\* in the OAB driver two records with one id are the record of a debate
\* and, right after it, the error record of the exception that followed its
\* append.
C29_UniqueButForLateErrors ==
    \A i, j \in 1..Len(results) :
        (i < j /\ results[i].question_id = results[j].question_id) =>
            /\ mode \notin McqModes
            /\ j = i + 1
            /\ results[i].kind = "result"
            /\ results[i].final_answer = "null"
            /\ results[j].kind = "error"
            /\ results[j].error = "type_error"

\* What holds of C29: in every driver a pass of the loop runs a question
\* that has no record yet in the results, those loaded from a checkpoint
\* included, and the questions of a run that started from a checkpoint are
\* the ones with no record in it.
C29_NeverRunAgain ==
    /\ [][idx' = idx + 1 => questions[idx] \notin ProcessedIds(results)]_vars
    /\ [](\A i \in idx..Len(questions) :
             checkpoint # "absent" /\ idx = 1 /\ results = checkpoint
                => questions[i] \notin ProcessedIds(checkpoint))

-----------------------------------------------------------------------------
(* C30 *)

=============================================================================
